---- MODULE Spec2Model ----
(***************************************************************************)
(* falcon.media.validators.jsonschema: the validate() decorator and the    *)
(* two wrappers it builds, _validate (sync) and _validate_async (async).   *)
(*                                                                         *)
(* Two wrapper invocations, "a" and "b", run side by side.  Each has its   *)
(* own decorated handler, schemas, request and response objects, and its   *)
(* own position in the wrapper's code.  Properties that relate two         *)
(* invocations (sync against async, one failure against another) are      *)
(* stated over the pair.                                                   *)
(***************************************************************************)
EXTENDS Integers, Sequences, FiniteSets

VARIABLES
    func,         \* the decorated handler: whether it is a coroutine function
    req_schema,   \* closure variable req_schema (None or a schema)
    resp_schema,  \* closure variable resp_schema (None or a schema)
    callargs,     \* (self, req, resp, *args, **kwargs) the wrapper is called with
    req,          \* the request object: req.media
    resp,         \* the response object: resp.media
    pc,           \* position of the invocation in the wrapper's code
    m,            \* async wrapper's local m
    result,       \* the wrappers' local result
    outcome,      \* how the invocation left the wrapper
    trace,        \* the steps the invocation has performed, in order
    received,     \* the arguments the handler was called with
    beh,          \* what the handler did when it was called
    pre           \* the schemas and payloads as they were when the wrapper was entered

vars == <<func, req_schema, resp_schema, callargs, req, resp, pc, m, result,
          outcome, trace, received, beh, pre>>

----------------------------------------------------------------------------
(* Bounds *)

\* handlers return None or one of the values 1..NumResults
NumResults == 1

\* the wrapper is called with one of NumExtraArgs tuples of pass-through arguments
NumExtraArgs == 2

----------------------------------------------------------------------------
(* Values *)

Inv == {"a", "b"}

None == [tag |-> "None"]

\* JSON documents: null, a string, and objects over the property "name"
JNull == [type |-> "null", props |-> {}]
JStr == [type |-> "string", props |-> {}]
JObj(ps) == [type |-> "object", props |-> ps]

PropNames == {"name"}

Objects == {JObj(ps) : ps \in SUBSET PropNames}

\* bodies a request can carry
ReqBodies == {JStr} \cup Objects

\* bodies a handler can leave in resp.media (null: it set none)
RespBodies == {JNull} \cup Objects

\* {"type": "object", "required": ["name"]}
NameSchema == [type |-> "object", required |-> {"name"}]

Schemas == {NameSchema}

\* a handler's return value
Value(n) == [int |-> n]

Results == {None} \cup {Value(n) : n \in 1..NumResults}

ExtraArgs == 1..NumExtraArgs

\* repr() of a JSON document, as it appears in a validator message
Repr(instance) ==
    CASE instance.type = "null" -> "None"
      [] instance.type = "string" -> "'x'"
      [] instance.props = {} -> "{}"
      [] OTHER -> "{'name': 'x'}"

\* the errors jsonschema's validator yields for the keywords type and required
iter_errors(instance, schema) ==
    {<<Repr(instance), "is not of type", schema.type>> :
        t \in {schema.type} \ {instance.type}}
    \cup
    {<<p, "is a required property">> :
        p \in IF instance.type = "object" THEN schema.required \ instance.props ELSE {}}

\* jsonschema.validate: raises ValidationError (the best match) when there are errors
ValidationFails(instance, schema) == iter_errors(instance, schema) # {}

\* e.message of the ValidationError raised
ValidationMessage(instance, schema) ==
    CHOOSE e \in iter_errors(instance, schema) : TRUE

----------------------------------------------------------------------------
(* Errors *)

NoDescription == <<>>

HTTPError(type, title, description) ==
    [type |-> type, title |-> title, description |-> description]

\* a client error that drops the description it is given
HTTPBadRequestNoDescription(title, description) ==
    HTTPError("HTTPBadRequest", title, NoDescription)

\* falcon.HTTPBadRequest('Request data failed validation', description=e.message)
HTTPBadRequest(title, description) == HTTPError("HTTPBadRequest", title, description)

\* falcon.HTTPInternalServerError('Response data failed validation')
HTTPInternalServerError(title) ==
    HTTPError("HTTPInternalServerError", title, NoDescription)

\* errors a handler may raise itself
HandlerErrors == {HTTPError("HTTPNotFound", "Not Found", NoDescription)}

Returned(v) == [kind |-> "return", value |-> v, error |-> None]
Raised(e) == [kind |-> "raise", value |-> None, error |-> e]
Pending == [kind |-> "pending", value |-> None, error |-> None]

\* what a handler can do: set resp.media, then return a value or raise
Behaviours ==
    {[media |-> b, out |-> o] :
        b \in RespBodies,
        o \in {Returned(v) : v \in Results} \cup {Raised(e) : e \in HandlerErrors}}

----------------------------------------------------------------------------
(* validate(req_schema, resp_schema)(func) *)

\* decorator: the async wrapper for a coroutine function, else the sync one
decorator(f) == IF f.iscoroutine THEN "_validate_async" ELSE "_validate"

wrapper(i) == decorator(func[i])

Init ==
    /\ func \in [Inv -> [iscoroutine : BOOLEAN]]
    /\ req_schema \in [Inv -> Schemas \cup {None}]
    /\ resp_schema \in [Inv -> Schemas \cup {None}]
    /\ callargs \in [Inv -> [self : {"self"}, req : {"req"}, resp : {"resp"},
                             extra : ExtraArgs]]
    /\ req \in [Inv -> [media : ReqBodies]]
    /\ resp = [i \in Inv |-> [media |-> JNull]]
    /\ pc = [i \in Inv |-> "req_check"]
    /\ m = [i \in Inv |-> None]
    /\ result = [i \in Inv |-> None]
    /\ outcome = [i \in Inv |-> Pending]
    /\ trace = [i \in Inv |-> <<>>]
    /\ received = [i \in Inv |-> None]
    /\ beh = [i \in Inv |-> None]
    /\ pre = [i \in Inv |-> [req |-> req[i], resp |-> resp[i],
                             req_schema |-> req_schema[i],
                             resp_schema |-> resp_schema[i]]]

\* an error that is recorded while the wrapper carries on where it was
RaiseAndCarryOn(i, e) ==
    /\ outcome' = [outcome EXCEPT ![i] = Raised(e)]
    /\ pc' = pc

\* raise e: the invocation leaves the wrapper with the error e
Raise(i, e) ==
    /\ outcome' = [outcome EXCEPT ![i] = Raised(e)]
    /\ pc' = [pc EXCEPT ![i] = "done"]

Log(i, evs) == trace' = [trace EXCEPT ![i] = trace[i] \o evs]

----------------------------------------------------------------------------
(* The wrapped handler *)

\* a handler error turned into the wrapper's own server error
HandlerRaisedConverted(i, e) ==
    Raise(i, HTTPInternalServerError("Response data failed validation"))

\* an error raised by func is caught nowhere in the wrappers: it leaves them as it is
HandlerRaised(i, e) == Raise(i, e)

\* func runs with the arguments a and behaves as b; the wrapper binds result
HandlerRuns(i, a, b) ==
    /\ received' = [received EXCEPT ![i] = a]
    /\ beh' = [beh EXCEPT ![i] = b]
    /\ resp' = [resp EXCEPT ![i].media = b.media]
    /\ Log(i, <<"handler">>)
    /\ IF b.out.kind = "raise"
         THEN /\ HandlerRaised(i, b.out.error)
              /\ UNCHANGED result
         ELSE /\ result' = [result EXCEPT ![i] = b.out.value]
              /\ pc' = [pc EXCEPT ![i] = "resp_check"]
              /\ UNCHANGED outcome

----------------------------------------------------------------------------
(* _validate.wrapper *)

\* a request failure that is passed over: the wrapper goes on to the handler
SyncRequestFailedIgnored(i) ==
    /\ pc' = [pc EXCEPT ![i] = "call"]
    /\ UNCHANGED outcome

\* except jsonschema.ValidationError as e: raise falcon.HTTPBadRequest(...)
SyncRequestFailed(i) ==
    Raise(i, HTTPBadRequest("Request data failed validation",
                            ValidationMessage(req[i].media, req_schema[i])))

\* a sync wrapper that goes from the request check straight to the response check
SyncAfterRequestCheckSkipping == "resp_check"

\* the statement after the request check: the handler call
SyncAfterRequestCheck == "call"

\* if req_schema is not None: validate req.media, raise HTTPBadRequest on failure
SyncRequestCheck(i) ==
    /\ wrapper(i) = "_validate"
    /\ pc[i] = "req_check"
    /\ IF req_schema[i] # None
         THEN /\ Log(i, <<"req.media", "validate_req">>)
              /\ IF ValidationFails(req[i].media, req_schema[i])
                   THEN SyncRequestFailed(i)
                   ELSE /\ pc' = [pc EXCEPT ![i] = SyncAfterRequestCheck]
                        /\ UNCHANGED outcome
         ELSE /\ pc' = [pc EXCEPT ![i] = SyncAfterRequestCheck]
              /\ UNCHANGED <<outcome, trace>>
    /\ UNCHANGED <<func, req_schema, resp_schema, callargs, req, resp, m, result,
                   received, beh, pre>>

\* a call that hands the handler req and resp in each other's place
SyncPassedArgsSwapped(i) ==
    [callargs[i] EXCEPT !.req = callargs[i].resp, !.resp = callargs[i].req]

\* the arguments of func(self, req, resp, *args, **kwargs)
SyncPassedArgs(i) == callargs[i]

\* result = func(self, req, resp, *args, **kwargs)
SyncCall(i) ==
    /\ wrapper(i) = "_validate"
    /\ pc[i] = "call"
    /\ \E b \in Behaviours : HandlerRuns(i, SyncPassedArgs(i), b)
    /\ UNCHANGED <<func, req_schema, resp_schema, callargs, req, m, pre>>

\* a server error that carries the validator's message
SyncResponseFailedLeaking(i) ==
    Raise(i, HTTPError("HTTPInternalServerError", "Response data failed validation",
                       ValidationMessage(resp[i].media, resp_schema[i])))

\* except jsonschema.ValidationError: raise falcon.HTTPInternalServerError(...)
SyncResponseFailed(i) ==
    Raise(i, HTTPInternalServerError("Response data failed validation"))

\* if resp_schema is not None: validate resp.media, raise HTTPInternalServerError
\* on failure; return result
SyncResponseCheck(i) ==
    /\ wrapper(i) = "_validate"
    /\ pc[i] = "resp_check"
    /\ IF resp_schema[i] # None
         THEN /\ Log(i, <<"validate_resp">>)
              /\ IF ValidationFails(resp[i].media, resp_schema[i])
                   THEN SyncResponseFailed(i)
                   ELSE /\ outcome' = [outcome EXCEPT ![i] = Returned(result[i])]
                        /\ pc' = [pc EXCEPT ![i] = "done"]
         ELSE /\ outcome' = [outcome EXCEPT ![i] = Returned(result[i])]
              /\ pc' = [pc EXCEPT ![i] = "done"]
              /\ UNCHANGED trace
    /\ UNCHANGED <<func, req_schema, resp_schema, callargs, req, resp, m, result,
                   received, beh, pre>>

----------------------------------------------------------------------------
(* _validate_async.wrapper *)

\* a wrapper that awaits the body before it looks at req_schema
AsyncGetMediaAlways(i) ==
    /\ wrapper(i) = "_validate_async"
    /\ pc[i] = "req_check"
    /\ m' = [m EXCEPT ![i] = req[i].media]
    /\ Log(i, <<"req.get_media">>)
    /\ pc' = [pc EXCEPT ![i] = IF req_schema[i] # None THEN "validate_req" ELSE "call"]
    /\ UNCHANGED <<func, req_schema, resp_schema, callargs, req, resp, result,
                   outcome, received, beh, pre>>

\* a wrapper whose retrieval takes the body out of the request
AsyncGetMediaConsuming(i) ==
    /\ wrapper(i) = "_validate_async"
    /\ pc[i] = "req_check"
    /\ IF req_schema[i] # None
         THEN /\ m' = [m EXCEPT ![i] = req[i].media]
              /\ req' = [req EXCEPT ![i].media = JObj({})]
              /\ Log(i, <<"req.get_media">>)
              /\ pc' = [pc EXCEPT ![i] = "validate_req"]
         ELSE /\ pc' = [pc EXCEPT ![i] = "call"]
              /\ UNCHANGED <<m, trace, req>>
    /\ UNCHANGED <<func, req_schema, resp_schema, callargs, resp, result,
                   outcome, received, beh, pre>>

\* if req_schema is not None: m = await req.get_media()
AsyncGetMedia(i) ==
    /\ wrapper(i) = "_validate_async"
    /\ pc[i] = "req_check"
    /\ IF req_schema[i] # None
         THEN /\ m' = [m EXCEPT ![i] = req[i].media]
              /\ Log(i, <<"req.get_media">>)
              /\ pc' = [pc EXCEPT ![i] = "validate_req"]
         ELSE /\ pc' = [pc EXCEPT ![i] = "call"]
              /\ UNCHANGED <<m, trace>>
    /\ UNCHANGED <<func, req_schema, resp_schema, callargs, req, resp, result,
                   outcome, received, beh, pre>>

\* a wrapper that validates the response body where the request body is meant
AsyncValidatedBodyWrong(i) == resp[i].media

\* the document handed to jsonschema.validate: m
AsyncValidatedBody(i) == m[i]

\* except jsonschema.ValidationError as e: raise falcon.HTTPBadRequest(...)
AsyncRequestFailed(i) ==
    Raise(i, HTTPBadRequest("Request data failed validation",
                            ValidationMessage(AsyncValidatedBody(i), req_schema[i])))

\* validate m, raise HTTPBadRequest on failure
AsyncValidateRequest(i) ==
    /\ wrapper(i) = "_validate_async"
    /\ pc[i] = "validate_req"
    /\ Log(i, <<"validate_req">>)
    /\ IF ValidationFails(AsyncValidatedBody(i), req_schema[i])
         THEN AsyncRequestFailed(i)
         ELSE /\ pc' = [pc EXCEPT ![i] = "call"]
              /\ UNCHANGED outcome
    /\ UNCHANGED <<func, req_schema, resp_schema, callargs, req, resp, m, result,
                   received, beh, pre>>

\* the arguments of await func(self, req, resp, *args, **kwargs)
AsyncPassedArgs(i) == callargs[i]

\* result = await func(self, req, resp, *args, **kwargs)
AsyncCall(i) ==
    /\ wrapper(i) = "_validate_async"
    /\ pc[i] = "call"
    /\ \E b \in Behaviours : HandlerRuns(i, AsyncPassedArgs(i), b)
    /\ UNCHANGED <<func, req_schema, resp_schema, callargs, req, m, pre>>

\* except jsonschema.ValidationError: raise falcon.HTTPInternalServerError(...)
AsyncResponseFailed(i) ==
    Raise(i, HTTPInternalServerError("Response data failed validation"))

\* if resp_schema is not None: validate resp.media, raise HTTPInternalServerError
\* on failure; return result
AsyncResponseCheck(i) ==
    /\ wrapper(i) = "_validate_async"
    /\ pc[i] = "resp_check"
    /\ IF resp_schema[i] # None
         THEN /\ Log(i, <<"validate_resp">>)
              /\ IF ValidationFails(resp[i].media, resp_schema[i])
                   THEN AsyncResponseFailed(i)
                   ELSE /\ outcome' = [outcome EXCEPT ![i] = Returned(result[i])]
                        /\ pc' = [pc EXCEPT ![i] = "done"]
         ELSE /\ outcome' = [outcome EXCEPT ![i] = Returned(result[i])]
              /\ pc' = [pc EXCEPT ![i] = "done"]
              /\ UNCHANGED trace
    /\ UNCHANGED <<func, req_schema, resp_schema, callargs, req, resp, m, result,
                   received, beh, pre>>

Next ==
    \E i \in Inv :
        \/ SyncRequestCheck(i)
        \/ SyncCall(i)
        \/ SyncResponseCheck(i)
        \/ AsyncGetMedia(i)
        \/ AsyncValidateRequest(i)
        \/ AsyncCall(i)
        \/ AsyncResponseCheck(i)

Spec == Init /\ [][Next]_vars

----------------------------------------------------------------------------
(* Vocabulary of the properties *)

Sync(i) == wrapper(i) = "_validate"

Async(i) == wrapper(i) = "_validate_async"

Done(i) == pc[i] = "done"

\* the step ev occurs in the invocation's trace
Has(i, ev) == \E k \in DOMAIN trace[i] : trace[i][k] = ev

\* how often the step ev occurs in the invocation's trace
Count(i, ev) == Cardinality({k \in DOMAIN trace[i] : trace[i][k] = ev})

\* a schema is given and the document has at least one error against it
Violates(instance, schema) == schema # None /\ iter_errors(instance, schema) # {}

\* the request body the invocation was entered with violates its request schema
RequestViolation(i) == Violates(pre[i].req.media, pre[i].req_schema)

HandlerCalled(i) == beh[i] # None

HandlerReturned(i) == HandlerCalled(i) /\ beh[i].out.kind = "return"

HandlerRaisedError(i) == HandlerCalled(i) /\ beh[i].out.kind = "raise"

\* the handler completed and left a response body that violates the response schema
ResponseViolation(i) == HandlerReturned(i) /\ Violates(resp[i].media, resp_schema[i])

RaisedOfType(i, type) == outcome[i].kind = "raise" /\ outcome[i].error.type = type

\* the validation and handler steps of a trace, without the body retrieval
IsCoreStep(ev) == ev \in {"validate_req", "handler", "validate_resp"}

CoreSteps(i) == SelectSeq(trace[i], IsCoreStep)

\* the fixed order of the steps; both ways of retrieving the body count as one step
Order == <<"retrieve", "validate_req", "handler", "validate_resp">>

StepOf(ev) == IF ev \in {"req.media", "req.get_media"} THEN "retrieve" ELSE ev

Pos(ev) == CHOOSE k \in DOMAIN Order : Order[k] = StepOf(ev)

----------------------------------------------------------------------------
(* C1 *)

\* C1: when the request body violates the request schema, the handler is never
\* invoked (it is not called, receives nothing, and resp.media stays as it was),
\* and the invocation ends with HTTPBadRequest; in both wrappers.
C1_RequestViolationStopsHandler ==
    \A i \in Inv :
        RequestViolation(i) =>
            /\ ~Has(i, "handler")
            /\ ~HandlerCalled(i)
            /\ received[i] = None
            /\ resp[i] = pre[i].resp
            /\ pc[i] \notin {"call", "resp_check"}
            /\ Done(i) => RaisedOfType(i, "HTTPBadRequest")

C1_Witness ==
    \E i, j \in Inv :
        /\ Sync(i) /\ Async(j)
        /\ RequestViolation(i) /\ RequestViolation(j)
        /\ Done(i) /\ Done(j)
        /\ RaisedOfType(i, "HTTPBadRequest") /\ RaisedOfType(j, "HTTPBadRequest")

----------------------------------------------------------------------------
(* C2 *)

\* C2: when the handler completes and resp.media violates the response schema, the
\* invocation ends with HTTPInternalServerError, and any two invocations that fail
\* response validation end with the same error, whatever the validator reported.
C2_ResponseErrorIndependentOfDetail ==
    /\ \A i \in Inv :
          (Done(i) /\ ResponseViolation(i)) => RaisedOfType(i, "HTTPInternalServerError")
    /\ \A i, j \in Inv :
          (Done(i) /\ Done(j) /\ ResponseViolation(i) /\ ResponseViolation(j))
             => outcome[i] = outcome[j]

C2_Witness ==
    \E i, j \in Inv :
        /\ Sync(i) /\ Async(j)
        /\ Done(i) /\ Done(j)
        /\ ResponseViolation(i) /\ ResponseViolation(j)
        /\ ValidationMessage(resp[i].media, resp_schema[i])
             # ValidationMessage(resp[j].media, resp_schema[j])
        /\ outcome[i] = outcome[j]

----------------------------------------------------------------------------
(* C3 *)

\* C3: when the request body satisfies the request schema (or none is given), the
\* handler is executed with the arguments the wrapper was called with; when the
\* response body also satisfies the response schema (or none is given), the
\* wrapper returns exactly the value the handler returned.
C3_ValidPassesThrough ==
    \A i \in Inv :
        (Done(i) /\ ~RequestViolation(i)) =>
            /\ HandlerCalled(i)
            /\ Count(i, "handler") = 1
            /\ received[i] = callargs[i]
            /\ (HandlerReturned(i) /\ ~ResponseViolation(i))
                  => outcome[i] = Returned(beh[i].out.value)

C3_Witness ==
    \E i, j \in Inv :
        /\ Sync(i) /\ Async(j)
        /\ \A k \in {i, j} :
              /\ Done(k)
              /\ req_schema[k] # None /\ resp_schema[k] # None
              /\ ~RequestViolation(k) /\ HandlerReturned(k) /\ ~ResponseViolation(k)
              /\ received[k] = callargs[k]
              /\ outcome[k] = Returned(Value(NumResults))

----------------------------------------------------------------------------
(* C4 *)

\* the two invocations were given the same schemas and the same request body
SameInputs(i, j) ==
    /\ pre[i].req_schema = pre[j].req_schema
    /\ pre[i].resp_schema = pre[j].resp_schema
    /\ pre[i].req = pre[j].req

\* C4: a sync and an async invocation with the same schemas, the same request body
\* and the same handler behaviour end with the same outcome (the same value, or the
\* same error with the same message) after the same sequence of request validation,
\* handler invocation and response validation.
C4_SyncAsyncAgree ==
    \A i, j \in Inv :
        (Sync(i) /\ Async(j) /\ SameInputs(i, j) /\ Done(i) /\ Done(j)
            /\ beh[i] = beh[j])
          => /\ outcome[i] = outcome[j]
             /\ CoreSteps(i) = CoreSteps(j)
             /\ resp[i] = resp[j]

C4_Witness ==
    \E i, j \in Inv :
        /\ Sync(i) /\ Async(j) /\ SameInputs(i, j) /\ Done(i) /\ Done(j)
        /\ beh[i] = beh[j]
        /\ RequestViolation(i)
        /\ outcome[i] = outcome[j]
        /\ CoreSteps(i) = <<"validate_req">>

----------------------------------------------------------------------------
(* C5 *)

\* C5: the steps of an invocation occur in the order body retrieval, request
\* validation, handler, response validation: request validation has completed
\* (and passed) when the handler starts, and response validation starts only
\* after the handler has completed; in the async wrapper across its suspensions.
C5_FixedOrder ==
    \A i \in Inv :
        /\ \A k, l \in DOMAIN trace[i] : k < l => Pos(trace[i][k]) < Pos(trace[i][l])
        /\ Has(i, "validate_req") => (Has(i, "req.media") \/ Has(i, "req.get_media"))
        /\ (req_schema[i] # None /\ (pc[i] = "call" \/ Has(i, "handler")))
              => (Has(i, "validate_req") /\ ~RequestViolation(i))
        /\ (pc[i] = "resp_check" \/ Has(i, "validate_resp")) => HandlerReturned(i)
        /\ Has(i, "validate_resp") => Has(i, "handler")

C5_Witness ==
    \E i, j \in Inv :
        /\ Sync(i) /\ Async(j)
        /\ trace[i] = <<"req.media", "validate_req", "handler", "validate_resp">>
        /\ trace[j] = <<"req.get_media", "validate_req", "handler", "validate_resp">>

----------------------------------------------------------------------------
(* C6 *)

\* C6: when request validation fails, the error is HTTPBadRequest with the title
\* 'Request data failed validation' and, as its description, the message the
\* validator produced for that violation; in both wrappers.
C6_BadRequestCarriesMessage ==
    \A i \in Inv :
        (Done(i) /\ RequestViolation(i)) =>
            /\ outcome[i].kind = "raise"
            /\ outcome[i].error.type = "HTTPBadRequest"
            /\ outcome[i].error.title = "Request data failed validation"
            /\ outcome[i].error.description
                  \in iter_errors(pre[i].req.media, pre[i].req_schema)
            /\ pre[i].req.media = JObj({})
                  => outcome[i].error.description = <<"name", "is a required property">>

C6_Witness ==
    \E i, j \in Inv :
        /\ Sync(i) /\ Async(j)
        /\ Done(i) /\ Done(j)
        /\ pre[i].req_schema = NameSchema /\ pre[j].req_schema = NameSchema
        /\ pre[i].req.media = JObj({}) /\ pre[j].req.media = JStr
        /\ outcome[i].error.description = <<"name", "is a required property">>
        /\ outcome[j].error.description = <<"'x'", "is not of type", "object">>

----------------------------------------------------------------------------
(* C7 *)

\* C7: at every point of an invocation, whatever its outcome, the request payload
\* and both schemas are as they were on entry, and the response payload is as it
\* was on entry unless the handler ran, and then it is what the handler left.
C7_WrapperMutatesNothing ==
    \A i \in Inv :
        /\ req[i] = pre[i].req
        /\ req_schema[i] = pre[i].req_schema
        /\ resp_schema[i] = pre[i].resp_schema
        /\ resp[i] = IF HandlerCalled(i) THEN [media |-> beh[i].media] ELSE pre[i].resp

C7_Witness ==
    \E i, j \in Inv :
        /\ Sync(i) /\ Async(j)
        /\ Done(i) /\ Done(j)
        /\ RequestViolation(j) /\ req[j] = pre[j].req
        /\ Has(i, "validate_req") /\ ResponseViolation(i)
        /\ resp[i] # pre[i].resp /\ resp[i].media = beh[i].media

----------------------------------------------------------------------------
(* C8 *)

C8_AtMostOnce ==
    \A i \in Inv :
        /\ \A ev \in {"req.media", "req.get_media", "validate_req", "handler",
                      "validate_resp"} : Count(i, ev) <= 1
        /\ outcome[i].kind # "pending" <=> Done(i)
        /\ (Done(i) /\ RequestViolation(i))
              => trace[i][Len(trace[i])] = "validate_req"
        /\ (Done(i) /\ ResponseViolation(i))
              => trace[i][Len(trace[i])] = "validate_resp"

C8_NoStepAfterEnd ==
    \A i \in Inv :
        Done(i) => (pc'[i] = pc[i] /\ trace'[i] = trace[i] /\ outcome'[i] = outcome[i]
                    /\ resp'[i] = resp[i])

\* C8: within one invocation the request is validated at most once, the handler is
\* invoked at most once and the response is validated at most once; a validation
\* failure is the last step of the invocation, and once the invocation has ended
\* it performs no further step.
C8_FailureIsTerminal == []C8_AtMostOnce /\ [][C8_NoStepAfterEnd]_vars

C8_Witness ==
    \E i, j \in Inv :
        /\ Sync(i) /\ Async(j)
        /\ Done(i) /\ RequestViolation(i) /\ trace[i] = <<"req.media", "validate_req">>
        /\ Done(j) /\ ResponseViolation(j) /\ Len(trace[j]) = Len(Order)

----------------------------------------------------------------------------
(* C9 *)

\* C9: each validation runs if and only if its schema was supplied.  With
\* req_schema None the body is never retrieved or validated and the handler is
\* always invoked; with resp_schema None the response is never validated and the
\* handler's result is always returned; with both None the invocation is the
\* handler call alone, with the handler's outcome.
C9_ValidationIffSchema ==
    \A i \in Inv :
        /\ req_schema[i] = None =>
              /\ ~Has(i, "req.media") /\ ~Has(i, "req.get_media")
              /\ ~Has(i, "validate_req")
              /\ m[i] = None
              /\ Done(i) => Has(i, "handler")
        /\ (req_schema[i] # None /\ Done(i)) => Has(i, "validate_req")
        /\ resp_schema[i] = None =>
              /\ ~Has(i, "validate_resp")
              /\ (Done(i) /\ HandlerReturned(i)) => outcome[i] = Returned(beh[i].out.value)
        /\ (resp_schema[i] # None /\ Done(i) /\ HandlerReturned(i))
              => Has(i, "validate_resp")
        /\ (req_schema[i] = None /\ resp_schema[i] = None /\ Done(i)) =>
              /\ trace[i] = <<"handler">>
              /\ received[i] = callargs[i]
              /\ outcome[i] = beh[i].out

C9_Witness ==
    \E i, j \in Inv :
        /\ Sync(i) /\ Async(j)
        /\ \A k \in {i, j} :
              /\ req_schema[k] = None /\ resp_schema[k] = None
              /\ Done(k)
              /\ iter_errors(req[k].media, NameSchema) # {}
              /\ iter_errors(resp[k].media, NameSchema) # {}
              /\ outcome[k] = Returned(Value(NumResults))

----------------------------------------------------------------------------
(* C10 *)

\* C10: when the handler raises, that same error leaves the wrapper, and response
\* validation is not performed, even with a response schema that the response body
\* would violate; in both wrappers.
C10_HandlerErrorPropagates ==
    \A i \in Inv :
        HandlerRaisedError(i) =>
            /\ Done(i)
            /\ outcome[i] = Raised(beh[i].out.error)
            /\ ~Has(i, "validate_resp")
            /\ trace[i][Len(trace[i])] = "handler"

C10_Witness ==
    \E i, j \in Inv :
        /\ Sync(i) /\ Async(j)
        /\ \A k \in {i, j} :
              /\ HandlerRaisedError(k)
              /\ Violates(resp[k].media, resp_schema[k])
              /\ RaisedOfType(k, "HTTPNotFound")

====
